---- MODULE Spec2Model ----
(***************************************************************************)
(* Model of open-precense: the POST /api/generate route handler            *)
(* (src/app/api/generate/route.ts) and the page component that calls it    *)
(* (src/unnamed/part_000, RealEstateRemixPage).                            *)
(*                                                                         *)
(* JavaScript values are tagged records [t, v].  A string is kept          *)
(* run-length encoded: v is a sequence of runs [c, e] (character c up to   *)
(* position e, adjacent runs of different characters), so that             *)
(* texts longer than the 15000-character slice of userPrompt are ordinary  *)
(* small values.  An object is a sequence of properties [k, x] (key k,      *)
(* value x) in insertion order; an array is a sequence of values; a number *)
(* is kept in the field n, which is 0 for every other value.               *)
(***************************************************************************)
EXTENDS Integers, Sequences, FiniteSets, TLC

\* ------------------------------------------------------------------ bounds
\* Longest results array a provider response of the model carries.
MaxResults == 2
\* How far past the slice length the longest provider text of the model goes.
MaxOver == 2
\* Submissions of the page component the model follows.
MaxSubmits == 2

\* ------------------------------------------------------- program constants
\* userPrompt: (scraped || "").slice(0, 15000)
SliceCap == 15000
\* firecrawl: { query: q, limit: 5 }
SearchLimit == 5
\* POST: { status: 400 } for a missing q
StatusBadRequest == 400
\* POST: { status: 500 } in the catch block
StatusServerError == 500
\* NextResponse.json(...) without a status
StatusOK == 200

\* -------------------------------------------------------------- JS values
U == [t |-> "undef", v |-> <<>>, n |-> 0]
N == [t |-> "null", v |-> <<>>, n |-> 0]
Num(k) == [t |-> "num", v |-> <<>>, n |-> k]
Arr(s) == [t |-> "arr", v |-> s, n |-> 0]
Obj(props) == [t |-> "obj", v |-> props, n |-> 0]
\* One property of an object.
P(key, val) == [k |-> key, x |-> val]

Min(a, b) == IF a <= b THEN a ELSE b

\* ---------------------------------------------------------------- strings
\* A run: the character ch, up to and including position e of the string.
Run(ch, end) == [c |-> ch, e |-> end]
StrRuns(runs) == [t |-> "str", v |-> runs, n |-> 0]
Empty == StrRuns(<<>>)

\* The string of the characters chars, in order.
Str(chars) ==
    LET ends == {i \in 1..Len(chars) : i = Len(chars) \/ chars[i] # chars[i + 1]}
        Nth(j) == CHOOSE i \in ends : Cardinality({x \in ends : x <= i}) = j
    IN  StrRuns([j \in 1..Cardinality(ends) |-> Run(chars[Nth(j)], Nth(j))])

\* A text of k >= 1 characters.
LongText(k) == StrRuns(<<Run("x", k)>>)

\* String.prototype.length
Length(s) == IF s.v = <<>> THEN 0 ELSE s.v[Len(s.v)].e

\* Where run i of runs starts, less one.
Before(runs, i) == IF i = 1 THEN 0 ELSE runs[i - 1].e

\* a + b on strings
Concat(a, b) ==
    LET shifted == [i \in 1..Len(b.v) |-> Run(b.v[i].c, b.v[i].e + Length(a))]
    IN  IF a.v # <<>> /\ b.v # <<>> /\ a.v[Len(a.v)].c = b.v[1].c
        THEN StrRuns(SubSeq(a.v, 1, Len(a.v) - 1) \o shifted)
        ELSE StrRuns(a.v \o shifted)

\* String.prototype.slice(0, k) for k >= 0
SliceStr(s, k) ==
    LET kept == Cardinality({i \in 1..Len(s.v) : Before(s.v, i) < k})
    IN  StrRuns([i \in 1..kept |-> Run(s.v[i].c, Min(s.v[i].e, k))])

\* s[p - 1], the character at position p of s (1 <= p <= length).
CharAt(s, p) == s.v[CHOOSE i \in 1..Len(s.v) : Before(s.v, i) < p /\ p <= s.v[i].e].c
\* The first k characters of s, one by one.
FirstChars(s, k) == [p \in 1..Min(k, Length(s)) |-> CharAt(s, p)]

\* White space String.prototype.trim removes (the part of it the model's inputs use).
WhiteSpace == {" ", "\t", "\n"}

\* String.prototype.trim
Trim(s) ==
    LET solid == {i \in 1..Len(s.v) : s.v[i].c \notin WhiteSpace}
        lo == CHOOSE i \in solid : \A j \in solid : i <= j
        hi == CHOOSE i \in solid : \A j \in solid : j <= i
    IN  IF solid = {} THEN Empty
        ELSE StrRuns([i \in 1..(hi - lo + 1) |->
                         Run(s.v[lo + i - 1].c, s.v[lo + i - 1].e - Before(s.v, lo))])

\* s is an initial part of t.
IsPrefix(s, t) ==
    LET a == s.v
        b == t.v
    IN  \/ a = <<>>
        \/ /\ Len(a) <= Len(b)
           /\ \A i \in 1..(Len(a) - 1) : a[i] = b[i]
           /\ a[Len(a)].c = b[Len(a)].c
           /\ a[Len(a)].e <= b[Len(a)].e

\* The test without its i flag: lower-case letters only.
IsHttpUrlCaseSensitive(s) ==
    LET cs == FirstChars(s, 8)
        At(i, ch) == i <= Len(cs) /\ cs[i] = ch
        Slashes(i) == At(i, ":") /\ At(i + 1, "/") /\ At(i + 2, "/")
    IN  /\ At(1, "h") /\ At(2, "t") /\ At(3, "t") /\ At(4, "p")
        /\ (Slashes(5) \/ (At(5, "s") /\ Slashes(6)))

\* /^https?:\/\//i.test(s): at the start of s, h t t p, an optional s, then "://",
\* letters in either case.
IsHttpUrl(s) ==
    LET cs == FirstChars(s, 8)
        At(i, set) == i <= Len(cs) /\ cs[i] \in set
        Scheme == At(1, {"h", "H"}) /\ At(2, {"t", "T"}) /\ At(3, {"t", "T"}) /\ At(4, {"p", "P"})
        Slashes(i) == At(i, {":"}) /\ At(i + 1, {"/"}) /\ At(i + 2, {"/"})
    IN  Scheme /\ (Slashes(5) \/ (At(5, {"s", "S"}) /\ Slashes(6)))

\* ------------------------------------------------------ JS value semantics
\* v is null or undefined (what ?? and ??= and ?. test).
Nullish(v) == v.t \in {"undef", "null"}
\* !v is false.
Truthy(v) ==
    CASE v.t \in {"undef", "null"} -> FALSE
      [] v.t = "num" -> v.n # 0
      [] v.t = "str" -> v.v # <<>>
      [] OTHER -> TRUE

HasKey(o, key) == \E i \in 1..Len(o.v) : o.v[i].k = key
\* o.k for an object o: the value of its property k, undefined when it has none.
Field(o, key) ==
    IF HasKey(o, key) THEN o.v[CHOOSE i \in 1..Len(o.v) : o.v[i].k = key].x ELSE U
\* v.k for a value that is neither null nor undefined: primitives, and arrays as
\* JSON.parse builds them, have none of the properties the code reads.
Prop(v, key) == IF v.t = "obj" THEN Field(v, key) ELSE U
\* o.k = x: replaces the property in place, or appends it.
SetField(o, key, val) ==
    IF HasKey(o, key)
    THEN Obj([i \in 1..Len(o.v) |-> IF o.v[i].k = key THEN P(key, val) ELSE o.v[i]])
    ELSE Obj(Append(o.v, P(key, val)))

Digit(d) == Str(<<CASE d = 0 -> "0" [] d = 1 -> "1" [] d = 2 -> "2" [] d = 3 -> "3"
                    [] d = 4 -> "4" [] d = 5 -> "5" [] d = 6 -> "6" [] d = 7 -> "7"
                    [] d = 8 -> "8" [] OTHER -> "9">>)
RECURSIVE Decimal(_)
\* String(n) for a natural number n.
Decimal(n) == IF n < 10 THEN Digit(n) ELSE Concat(Decimal(n \div 10), Digit(n % 10))

RECURSIVE JoinStr(_, _)
\* Array.prototype.join on an array of strings.
JoinStr(strs, sep) ==
    IF strs = <<>> THEN Empty
    ELSE IF Len(strs) = 1 THEN strs[1]
         ELSE Concat(Concat(strs[1], sep), JoinStr(Tail(strs), sep))

\* The characters of the property names the model's objects use.
KeyChars(k) ==
    CASE k = "results" -> <<"r", "e", "s", "u", "l", "t", "s">>
      [] k = "content" -> <<"c", "o", "n", "t", "e", "n", "t">>
      [] k = "title" -> <<"t", "i", "t", "l", "e">>
      [] k = "description" -> <<"d", "e", "s", "c", "r", "i", "p", "t", "i", "o", "n">>
      [] k = "meta" -> <<"m", "e", "t", "a">>
      [] k = "sections" -> <<"s", "e", "c", "t", "i", "o", "n", "s">>
      [] k = "html" -> <<"h", "t", "m", "l">>
      [] k = "id" -> <<"i", "d">>
      [] k = "data" -> <<"d", "a", "t", "a">>
      [] OTHER -> <<k>>

RECURSIVE Stringify(_)
RECURSIVE StringifyItems(_, _)
\* JSON.stringify(v) for a value JSON.parse returned (no undefined inside, and no
\* character that needs an escape in the strings of the model).
Stringify(v) ==
    CASE v.t = "null" -> Str(<<"n", "u", "l", "l">>)
      [] v.t = "num" -> Decimal(v.n)
      [] v.t = "str" -> Concat(Concat(Str(<<"\"">>), v), Str(<<"\"">>))
      [] v.t = "arr" ->
           Concat(Concat(Str(<<"[">>), StringifyItems(v.v, FALSE)), Str(<<"]">>))
      [] v.t = "obj" ->
           Concat(Concat(Str(<<"{">>), StringifyItems(v.v, TRUE)), Str(<<"}">>))
StringifyItems(items, keyed) ==
    JoinStr([i \in 1..Len(items) |->
                IF keyed
                THEN Concat(Concat(Stringify(Str(KeyChars(items[i].k))), Str(<<":">>)),
                            Stringify(items[i].x))
                ELSE Stringify(items[i])],
            Str(<<",">>))

RECURSIVE TemplateStr(_)
\* `${v}`, String(v): a string as it is, a number in decimal, an array as its
\* elements joined by "," (null elements as ""), any other object as
\* "[object Object]".
TemplateStr(v) ==
    CASE v.t = "str" -> v
      [] v.t = "num" -> Decimal(v.n)
      [] v.t = "null" -> Str(<<"n", "u", "l", "l">>)
      [] v.t = "undef" -> Str(<<"u", "n", "d", "e", "f", "i", "n", "e", "d">>)
      [] v.t = "arr" ->
           JoinStr([i \in 1..Len(v.v) |->
                       IF Nullish(v.v[i]) THEN Empty ELSE TemplateStr(v.v[i])],
                   Str(<<",">>))
      [] OTHER -> Str(<<"[", "o", "b", "j", "e", "c", "t", " ", "O", "b", "j", "e", "c", "t", "]">>)

\* ------------------------------------------------------------------ state
VARIABLES
    \* POST /api/generate (route.ts), one request at a time
    net,        \* the HTTP request on its way to POST: who sent it, and its body
    pc,         \* where POST is: "idle", "firecrawl" (awaiting the provider),
                \* "openrouter" (awaiting the LLM), "done" (response returned)
    postQ,      \* POST's q
    postRole,   \* POST's role
    scraped,    \* POST's scraped
    fcCalls,    \* the fetches firecrawl issued for this request, in order
    fcData,     \* what `await res.json()` gave firecrawl (U: nothing yet)
    fcOk,       \* firecrawl returned a value to POST for this request
    llmCalls,   \* the fetches generatePageJSON issued for this request, in order
    llmText,    \* the text generatePageJSON handed to JSON.parse, and whether it parsed
    response,   \* the response POST returned
    \* RealEstateRemixPage (part_000)
    role, q, loading, error, resp,   \* its useState cells
    pending,    \* the handleSubmit call suspended at await fetch: the q and role it
                \* closed over, and what the fetch settled with
    submits,    \* handleSubmit calls so far
    last        \* what the latest handleSubmit call has done so far

serverVars ==
    <<net, pc, postQ, postRole, scraped, fcCalls, fcData, fcOk, llmCalls, llmText, response>>
pageVars == <<role, q, loading, error, resp, pending, submits, last>>
vars ==
    <<net, pc, postQ, postRole, scraped, fcCalls, fcData, fcOk, llmCalls, llmText, response,
      role, q, loading, error, resp, pending, submits, last>>

\* ------------------------------------------------------- route.ts: values
RoleAgent == Str(<<"a", "g", "e", "n", "t">>)
RoleLoan == Str(<<"l", "o", "a", "n">>)
RoleProfile == Str(<<"p", "r", "o", "f", "i", "l", "e">>)
ROLES == {RoleAgent, RoleLoan, RoleProfile}

\* Message literals of the code are kept as one-token strings.
Lit(text) == Str(<<text>>)
Space == Str(<<" ">>)

NoRequest == [from |-> "none", body |-> U]
NoResponse == [status |-> 0, body |-> U]
NoText == [given |-> FALSE, content |-> U, text |-> U, parsed |-> FALSE]

\* The outcome of a call: a returned value, or a thrown error with its message.
Return(val) == [ok |-> TRUE, val |-> val]
Throw(message) == [ok |-> FALSE, val |-> message]

\* firecrawl: isUrl, endpoint and body of the fetch it issues for q.
FirecrawlRequest(query) ==
    LET isUrl == IsHttpUrl(Trim(query))
    IN  [endpoint |-> IF isUrl THEN "/scrape" ELSE "/search",
         body |-> IF isUrl THEN Obj(<<P("url", query)>>)
                  ELSE Obj(<<P("query", query), P("limit", Num(SearchLimit))>>)]

\* "\n\n---\n\n"
RecordSeparator == Str(<<"\n", "\n", "-", "-", "-", "\n", "\n">>)

\* x?.k
OptProp(x, key) == IF Nullish(x) THEN U ELSE Prop(x, key)
\* x?.[0]
OptFirst(x) ==
    IF x.t = "arr" /\ x.v # <<>> THEN x.v[1]
    ELSE IF x.t = "str" /\ x.v # <<>> THEN Str(<<CharAt(x, 1)>>)
    ELSE U
\* `${x ?? ""}`
TextOrEmpty(x) == IF Nullish(x) THEN Empty ELSE TemplateStr(x)

\* firecrawl, from `const data = await res.json()` on: the joined records of a
\* results array (reading r.title of a null record throws), else data.content
\* unless it is null or undefined, else JSON.stringify(data).
FirecrawlNormalize(data) ==
    LET results == OptProp(data, "results")
    IN  IF results.t = "arr"
        THEN IF \E i \in 1..Len(results.v) : Nullish(results.v[i])
             THEN Throw(Lit("Cannot read properties of null (reading 'title')"))
             ELSE Return(JoinStr(
                     [i \in 1..Len(results.v) |->
                         Concat(Concat(TextOrEmpty(Prop(results.v[i], "title")), Str(<<"\n">>)),
                                TextOrEmpty(Prop(results.v[i], "content")))],
                     RecordSeparator))
        ELSE IF ~Nullish(OptProp(data, "content"))
             THEN Return(OptProp(data, "content"))
             ELSE Return(Stringify(data))

\* userPrompt without the slice: ${scraped || ""}.
PromptContentUncut(text) == Return(TemplateStr(IF Truthy(text) THEN text ELSE Empty))

\* userPrompt: ${(scraped || "").slice(0, 15000)}.  A string is cut, an array is
\* cut and then joined by the template; any other truthy value has no slice.
PromptContent(text) ==
    LET x == IF Truthy(text) THEN text ELSE Empty
    IN  CASE x.t = "str" -> Return(SliceStr(x, SliceCap))
          [] x.t = "arr" -> Return(TemplateStr(Arr(SubSeq(x.v, 1, Min(Len(x.v), SliceCap)))))
          [] OTHER -> Throw(Lit("(scraped || \"\").slice is not a function"))

\* userPrompt: the role-specific part appended to base; anything but "agent" and
\* "loan" gets the profile part.
RoleSuffix(r) ==
    IF r.t = "str" /\ r = RoleAgent THEN "ROLE: Real Estate Agent (Listing/Area Landing)"
    ELSE IF r.t = "str" /\ r = RoleLoan THEN "ROLE: Loan Officer (Programs/Rates Landing)"
    ELSE "ROLE: Profile Builder (Agent/Team/Pro)"

\* userPrompt(role, q, scraped): the template with its three holes filled.
UserPrompt(r, query, text) ==
    LET content == PromptContent(text)
    IN  IF content.ok
        THEN Return([query |-> TemplateStr(query), content |-> content.val, suffix |-> RoleSuffix(r)])
        ELSE content

\* generatePageJSON: data?.choices?.[0]?.message?.content ?? "{}"
LlmText(data) ==
    LET content == OptProp(OptProp(OptFirst(OptProp(data, "choices")), "message"), "content")
    IN  IF Nullish(content) THEN Str(<<"{", "}">>) ELSE content

\* What the defaulting lines of POST assign.
DefaultMeta == Obj(<<P("title", Lit("Generated Page")), P("description", Empty)>>)
DefaultSections == Arr(<<>>)
DefaultHtml == Lit("<main class='container'><h1>Generated Page</h1></main>")

\* An array that was given named properties: the array, then the properties.
ArrWithProps(arr, props) == [t |-> "arrp", v |-> <<arr, props>>, n |-> 0]

\* page.k for a page that is not null or undefined.
PageProp(page, key) ==
    IF page.t = "arrp" THEN Field(page.v[2], key) ELSE Prop(page, key)

\* page.k ??= dflt in a module (strict mode): reading a property of null throws;
\* a property that is neither null nor undefined is left alone; creating a
\* property on a number or a string throws; an array takes it as a named property.
DefaultProp(page, key, dflt) ==
    IF Nullish(page)
    THEN Throw(Lit("Cannot read properties of null"))
    ELSE IF ~Nullish(PageProp(page, key)) THEN Return(page)
    ELSE CASE page.t = "obj" -> Return(SetField(page, key, dflt))
           [] page.t = "arr" -> Return(ArrWithProps(page, Obj(<<P(key, dflt)>>)))
           [] page.t = "arrp" -> Return(ArrWithProps(page.v[1], SetField(page.v[2], key, dflt)))
           [] OTHER -> Throw(Lit("Cannot create property"))

\* POST, "sane defaults": the three ??= lines, in order.
ApplyDefaults(page) ==
    LET m == DefaultProp(page, "meta", DefaultMeta)
        s == IF m.ok THEN DefaultProp(m.val, "sections", DefaultSections) ELSE m
    IN  IF s.ok THEN DefaultProp(s.val, "html", DefaultHtml) ELSE s

\* What JSON.stringify keeps of a value: an array loses its named properties.
Wire(x) == IF x.t = "arrp" THEN x.v[1] ELSE x

\* NextResponse.json({ page, q, role, scraped }): the body as the caller parses it.
SuccessBody(page, query, r, text) ==
    Obj(<<P("page", Wire(page)), P("q", query), P("role", r), P("scraped", text)>>)

\* POST's catch block: { error: err?.message || "Generation failed." }
ErrorBody(message) ==
    Obj(<<P("error", IF Truthy(message) THEN message ELSE Lit("Generation failed."))>>)

\* ------------------------------------------------------------------ inputs
\* Short texts the inputs are made of.
TxtT == Str(<<"T">>)
TxtD == Str(<<"D">>)
TxtC == Str(<<"c">>)
TxtH == Str(<<"<", "h", "1", ">", "X", "<", "/", "h", "1", ">">>)

\* An object with the given properties, those whose value is undefined left out.
ObjOf(props) == Obj(SelectSeq(props, LAMBDA p : p.x.t # "undef"))

\* What the LLM may put in meta, sections and html; U stands for: no such property.
MetaChoices ==
    {U, N, TxtT, Obj(<<>>), Obj(<<P("title", TxtT)>>), Obj(<<P("description", TxtD)>>),
     Obj(<<P("title", TxtT), P("description", TxtD)>>)}
SectionChoices ==
    {U, N, TxtC, Arr(<<>>),
     Arr(<<Obj(<<P("id", TxtC), P("title", TxtT), P("html", TxtH)>>)>>)}
HtmlChoices == {U, N, Empty, TxtH, Num(3)}
FullMeta == Obj(<<P("title", TxtT), P("description", TxtD)>>)
FullSections == Arr(<<Obj(<<P("id", TxtC), P("title", TxtT), P("html", TxtH)>>)>>)

PageOf(m, s, h) == ObjOf(<<P("meta", m), P("sections", s), P("html", h)>>)

\* The values the LLM's text may parse to: pages that differ in one property from
\* the complete page or from the empty object, and values that are no page at all.
Candidates ==
    {PageOf(m, FullSections, TxtH) : m \in MetaChoices}
      \cup {PageOf(FullMeta, s, TxtH) : s \in SectionChoices}
      \cup {PageOf(FullMeta, FullSections, h) : h \in HtmlChoices}
      \cup {PageOf(m, U, U) : m \in MetaChoices}
      \cup {PageOf(U, s, U) : s \in SectionChoices}
      \cup {PageOf(U, U, h) : h \in HtmlChoices}
      \cup {N, Num(7), TxtT, Arr(<<>>), Arr(<<Num(7)>>), Obj(<<P("data", Num(7))>>)}

\* Texts that are not JSON.
BadTexts == {Empty, Str(<<"S", "o", "r", "r", "y">>), Str(<<"{">>)}

\* JSON.parse as a table: the texts of the values of the model, each with its value.
ParseTable == {[text |-> Stringify(c), val |-> c] : c \in Candidates \cup {Num(5)}}

\* JSON.parse(text): the argument is first converted to a string; a text that is
\* the JSON of no value throws a SyntaxError.
JsonParse(text) ==
    LET str == TemplateStr(text)
    IN  IF \E e \in ParseTable : e.text = str
        THEN Return((CHOOSE e \in ParseTable : e.text = str).val)
        ELSE Throw(Lit("Unexpected token"))

\* The outcome of a fetch: rejected (transport error), or a response with a
\* status, a body text (read on failure) and the value res.json() gives (U when
\* the body is not JSON).
Rejected == [rejected |-> TRUE, status |-> 0, text |-> Empty, json |-> U]
HttpError(st, body) == [rejected |-> FALSE, status |-> st, text |-> body, json |-> U]
HttpOk(data) == [rejected |-> FALSE, status |-> StatusOK, text |-> Empty, json |-> data]
ResOk(res) == res.status >= 200 /\ res.status <= 299

\* A chat completion carrying content c.
Completion(c) ==
    Obj(<<P("choices", Arr(<<Obj(<<P("message", Obj(<<P("content", c)>>))>>)>>))>>)

\* What the LLM capability may answer.
LlmOutcomes ==
    {Rejected, HttpError(429, Lit("rate limited")), HttpOk(U)}
      \cup {HttpOk(d) : d \in {N, Obj(<<>>), Obj(<<P("choices", Arr(<<>>))>>),
                              Obj(<<P("choices", Arr(<<N>>))>>), Completion(N)}}
      \cup {HttpOk(Completion(Stringify(c))) : c \in Candidates}
      \cup {HttpOk(Completion(c)) : c \in BadTexts \cup {Num(5), Obj(<<>>)}}

\* The records a results array may hold.
RecordChoices ==
    {N, Obj(<<>>), Obj(<<P("title", TxtT), P("content", TxtC)>>),
     Obj(<<P("title", Num(3)), P("content", LongText(SliceCap))>>)}
RECURSIVE SeqsUpTo(_, _)
SeqsUpTo(S, k) ==
    IF k = 0 THEN {<<>>}
    ELSE LET shorter == SeqsUpTo(S, k - 1)
         IN  shorter \cup {Append(r, x) : r \in shorter, x \in S}

\* What the scrape/search capability may answer with a success status.
ProviderData ==
    {N, Num(7), TxtT, Arr(<<>>), Obj(<<>>), Obj(<<P("data", Obj(<<P("content", TxtC)>>))>>)}
      \cup {Obj(<<P("content", c)>>) :
              c \in {N, Empty, TxtC, Num(0), Num(42), Obj(<<>>), Arr(<<TxtC, N>>)}
                      \cup {LongText(SliceCap - 1 + k) : k \in 0..MaxOver}}
      \cup {Obj(<<P("results", r)>>) : r \in {N, TxtC}}
      \cup {Obj(<<P("results", Arr(rs)), P("content", TxtC)>>) :
              rs \in SeqsUpTo(RecordChoices, MaxResults)}
ProviderOutcomes ==
    {Rejected, HttpError(503, Lit("busy")), HttpOk(U)} \cup {HttpOk(d) : d \in ProviderData}

\* The queries of the model: a scheme-like start, with and without white space
\* around it.
Cores ==
    {<<>>, <<"a", " ", "b">>,
     <<"h", "t", "t", "p", ":", "/", "/", "a">>,
     <<"h", "t", "t", "p", "s", ":", "/", "/", "a">>,
     <<"H", "T", "T", "P", ":", "/", "/", "a">>,
     <<"h", "T", "t", "P", "S", ":", "/", "/">>,
     <<"h", "t", "t", "p", ":", "/", "a">>,
     <<"h", "t", "t", "p", "/", "/", "a">>,
     <<"h", "t", "p", "s", ":", "/", "/", "a">>,
     <<"h", "t", "t", "p", "s", "s", ":", "/", "/", "a">>,
     <<"f", "t", "p", ":", "/", "/", "a">>,
     <<"a", " ", "h", "t", "t", "p", ":", "/", "/", "b">>}
\* White space before and after a core.
Pads == {<<<<>>, <<>>>>, <<<<"\n", " ">>, <<"\t">>>>}
Queries == {Str(pad[1] \o c \o pad[2]) : pad \in Pads, c \in Cores}

\* The request bodies a caller of the route may send; U stands for a body that is
\* not JSON.
ApiBodies ==
    {U, N, Num(1), Obj(<<>>), Obj(<<P("q", N)>>), Obj(<<P("q", Num(0))>>),
     Obj(<<P("q", Num(5)), P("role", RoleProfile)>>)}
      \cup {Obj(<<P("q", query)>>) : query \in Queries}
      \cup {Obj(<<P("q", Str(<<"a", " ", "b">>)), P("role", r)>>) : r \in {N, RoleLoan, RoleProfile}}

\* ------------------------------------------------------- route.ts: actions
ServerReset ==
    /\ net' = NoRequest
    /\ pc' = "idle"
    /\ postQ' = U
    /\ postRole' = U
    /\ scraped' = U
    /\ fcCalls' = <<>>
    /\ fcData' = U
    /\ fcOk' = FALSE
    /\ llmCalls' = <<>>
    /\ llmText' = NoText
    /\ response' = NoResponse

\* return NextResponse.json(body, { status })
Respond(st, body) ==
    /\ response' = [status |-> st, body |-> body]
    /\ pc' = "done"

\* A caller other than the page sends a request to the route.
ApiRequest(body) ==
    /\ pc = "idle"
    /\ net = NoRequest
    /\ net' = [from |-> "api", body |-> body]
    /\ UNCHANGED <<pc, postQ, postRole, scraped, fcCalls, fcData, fcOk, llmCalls, llmText, response>>
    /\ UNCHANGED pageVars

\* POST, up to the fetch firecrawl issues: req.json(), the destructuring with its
\* default role, the !q test, then firecrawl's q.trim() and fetch.
PostBegin ==
    /\ pc = "idle"
    /\ net.from # "none"
    /\ LET body == net.body
           query == Prop(body, "q")
           r == IF Prop(body, "role").t = "undef" THEN RoleAgent ELSE Prop(body, "role")
       IN  IF body.t = "undef"
           THEN /\ Respond(StatusServerError, ErrorBody(Lit("Unexpected token")))
                /\ UNCHANGED <<postQ, postRole, fcCalls>>
           ELSE IF body.t = "null"
           THEN /\ Respond(StatusServerError, ErrorBody(Lit("Cannot destructure property 'q'")))
                /\ UNCHANGED <<postQ, postRole, fcCalls>>
           ELSE IF ~Truthy(query)
           THEN /\ Respond(StatusBadRequest, Obj(<<P("error", Lit("Missing input 'q'."))>>))
                /\ postQ' = query
                /\ postRole' = r
                /\ UNCHANGED fcCalls
           ELSE IF query.t # "str"
           THEN /\ Respond(StatusServerError, ErrorBody(Lit("q.trim is not a function")))
                /\ postQ' = query
                /\ postRole' = r
                /\ UNCHANGED fcCalls
           ELSE /\ postQ' = query
                /\ postRole' = r
                /\ fcCalls' = Append(fcCalls, FirecrawlRequest(query))
                /\ pc' = "firecrawl"
                /\ UNCHANGED response
    /\ UNCHANGED <<net, scraped, fcData, fcOk, llmCalls, llmText>>
    /\ UNCHANGED pageVars

\* `Firecrawl ${endpoint} failed: ${res.status} ${text}`
FirecrawlFailure(endpoint, res) ==
    Concat(Concat(Concat(Lit("Firecrawl "), Lit(endpoint)), Lit(" failed: ")),
           Concat(Concat(Decimal(res.status), Space), res.text))

\* firecrawl swallowing a failed provider call: it returns "" instead of throwing,
\* and POST goes on to the LLM.
FirecrawlReturnSwallow(res) ==
    /\ pc = "firecrawl"
    /\ LET text == IF res.rejected \/ ~ResOk(res) \/ res.json.t = "undef"
                   THEN Return(Empty)
                   ELSE FirecrawlNormalize(res.json)
           prompt == UserPrompt(postRole, postQ, text.val)
       IN  IF ~text.ok \/ ~prompt.ok
           THEN /\ Respond(StatusServerError, ErrorBody(IF text.ok THEN prompt.val ELSE text.val))
                /\ UNCHANGED <<scraped, fcData, fcOk, llmCalls>>
           ELSE /\ scraped' = text.val
                /\ fcData' = IF res.rejected \/ ~ResOk(res) THEN fcData ELSE res.json
                /\ fcOk' = (~res.rejected /\ ResOk(res) /\ res.json.t # "undef")
                /\ llmCalls' = Append(llmCalls, [system |-> "systemPrompt", user |-> prompt.val])
                /\ pc' = "openrouter"
                /\ UNCHANGED response
    /\ UNCHANGED <<net, postQ, postRole, fcCalls, llmText>>
    /\ UNCHANGED <<role, q, loading, error, resp, pending, submits, last>>

\* POST, from the provider's answer to the fetch generatePageJSON issues: the rest
\* of firecrawl, then userPrompt and the fetch to OpenRouter.
FirecrawlReturn(res) ==
    /\ pc = "firecrawl"
    /\ LET endpoint == fcCalls[Len(fcCalls)].endpoint
           text == FirecrawlNormalize(res.json)
           prompt == UserPrompt(postRole, postQ, text.val)
       IN  IF res.rejected
           THEN /\ Respond(StatusServerError, ErrorBody(Lit("fetch failed")))
                /\ UNCHANGED <<scraped, fcData, fcOk, llmCalls>>
           ELSE IF ~ResOk(res)
           THEN /\ Respond(StatusServerError, ErrorBody(FirecrawlFailure(endpoint, res)))
                /\ UNCHANGED <<scraped, fcData, fcOk, llmCalls>>
           ELSE IF res.json.t = "undef"
           THEN /\ Respond(StatusServerError, ErrorBody(Lit("Unexpected token")))
                /\ UNCHANGED <<scraped, fcData, fcOk, llmCalls>>
           ELSE /\ fcData' = res.json
                /\ IF ~text.ok
                   THEN /\ Respond(StatusServerError, ErrorBody(text.val))
                        /\ UNCHANGED <<scraped, fcOk, llmCalls>>
                   ELSE IF ~prompt.ok
                   THEN /\ Respond(StatusServerError, ErrorBody(prompt.val))
                        /\ scraped' = text.val
                        /\ fcOk' = TRUE
                        /\ UNCHANGED llmCalls
                   ELSE /\ scraped' = text.val
                        /\ fcOk' = TRUE
                        /\ llmCalls' =
                               Append(llmCalls, [system |-> "systemPrompt", user |-> prompt.val])
                        /\ pc' = "openrouter"
                        /\ UNCHANGED response
    /\ UNCHANGED <<net, postQ, postRole, fcCalls, llmText>>
    /\ UNCHANGED pageVars

\* `OpenRouter failed: ${res.status} ${await res.text()}`
OpenRouterFailure(res) ==
    Concat(Lit("OpenRouter failed: "), Concat(Concat(Decimal(res.status), Space), res.text))

\* POST, from the LLM's answer to the response: the rest of generatePageJSON
\* (the text, JSON.parse), the defaults, the success response; any throw ends in
\* the catch block.
OpenRouterReturn(res) ==
    /\ pc = "openrouter"
    /\ LET text == LlmText(res.json)
           page == JsonParse(text)
           filled == ApplyDefaults(page.val)
           content ==
               OptProp(OptProp(OptFirst(OptProp(res.json, "choices")), "message"), "content")
       IN  IF res.rejected
           THEN /\ Respond(StatusServerError, ErrorBody(Lit("fetch failed")))
                /\ UNCHANGED llmText
           ELSE IF ~ResOk(res)
           THEN /\ Respond(StatusServerError, ErrorBody(OpenRouterFailure(res)))
                /\ UNCHANGED llmText
           ELSE IF res.json.t = "undef"
           THEN /\ Respond(StatusServerError, ErrorBody(Lit("Unexpected token")))
                /\ UNCHANGED llmText
           ELSE /\ llmText' = [given |-> TRUE, content |-> content, text |-> text,
                               parsed |-> page.ok]
                /\ IF ~page.ok THEN Respond(StatusServerError, ErrorBody(page.val))
                   ELSE IF ~filled.ok THEN Respond(StatusServerError, ErrorBody(filled.val))
                   ELSE Respond(StatusOK, SuccessBody(filled.val, postQ, postRole, scraped))
    /\ UNCHANGED <<net, postQ, postRole, scraped, fcCalls, fcData, fcOk, llmCalls>>
    /\ UNCHANGED pageVars

\* The caller of ApiRequest has its response; the route is free again.
ApiDone ==
    /\ pc = "done"
    /\ net.from = "api"
    /\ ServerReset
    /\ UNCHANGED pageVars

\* ------------------------------------------------- RealEstateRemixPage
NoPending ==
    [on |-> FALSE, q |-> U, role |-> U, settled |-> FALSE, rejected |-> FALSE, res |-> NoResponse]

\* onChange={(e) => setQ(e.target.value)}
SetQ(value) ==
    /\ q' = value
    /\ UNCHANGED <<role, loading, error, resp, pending, submits, last>>
    /\ UNCHANGED serverVars

\* onClick={() => setRole(r.id)}
SetRole(r) ==
    /\ role' = r
    /\ UNCHANGED <<q, loading, error, resp, pending, submits, last>>
    /\ UNCHANGED serverVars

\* The form can be submitted: its only button is disabled={loading}.
CanSubmit == ~loading

\* handleSubmit without its setError(null): an earlier error stays on display.
SubmitKeepError ==
    /\ CanSubmit
    /\ submits < MaxSubmits
    /\ submits' = submits + 1
    /\ IF ~Truthy(Trim(q))
       THEN /\ error' = Lit("Enter a URL or keywords to generate.")
            /\ last' = "blank"
            /\ UNCHANGED <<loading, pending, net>>
       ELSE /\ loading' = TRUE
            /\ pending' = [on |-> TRUE, q |-> q, role |-> role, settled |-> FALSE,
                            rejected |-> FALSE, res |-> NoResponse]
            /\ net' = [from |-> "page", body |-> Obj(<<P("q", q), P("role", role)>>)]
            /\ last' = "pending"
            /\ UNCHANGED error
    /\ UNCHANGED <<role, q, resp>>
    /\ UNCHANGED <<pc, postQ, postRole, scraped, fcCalls, fcData, fcOk, llmCalls, llmText, response>>

\* handleSubmit up to `await fetch(...)`: clears the error, refuses a blank q,
\* else sets loading and sends { q, role }.
Submit ==
    /\ CanSubmit
    /\ submits < MaxSubmits
    /\ submits' = submits + 1
    /\ IF ~Truthy(Trim(q))
       THEN /\ error' = Lit("Enter a URL or keywords to generate.")
            /\ last' = "blank"
            /\ UNCHANGED <<loading, pending, net>>
       ELSE /\ error' = N
            /\ loading' = TRUE
            /\ pending' = [on |-> TRUE, q |-> q, role |-> role, settled |-> FALSE,
                            rejected |-> FALSE, res |-> NoResponse]
            /\ net' = [from |-> "page", body |-> Obj(<<P("q", q), P("role", role)>>)]
            /\ last' = "pending"
    /\ UNCHANGED <<role, q, resp>>
    /\ UNCHANGED <<pc, postQ, postRole, scraped, fcCalls, fcData, fcOk, llmCalls, llmText, response>>

\* x ?? y
Coalesce(x, y) == IF Nullish(x) THEN y ELSE x
\* x || y
OrElse(x, y) == IF Truthy(x) THEN x ELSE y

\* setResp({ page: data.page ?? {}, q: data.q ?? q, role: data.role ?? role })
NewResp(data, closure) ==
    Obj(<<P("page", Coalesce(Prop(data, "page"), Obj(<<>>))),
          P("q", Coalesce(Prop(data, "q"), closure.q)),
          P("role", Coalesce(Prop(data, "role"), closure.role))>>)

\* `await fetch(...)` settles with the response POST returned.
FetchResolve ==
    /\ pending.on
    /\ ~pending.settled
    /\ net.from = "page"
    /\ pc = "done"
    /\ pending' = [pending EXCEPT !.settled = TRUE, !.res = response]
    /\ ServerReset
    /\ UNCHANGED <<role, q, loading, error, resp, submits, last>>

\* `await fetch(...)` rejects (transport error), wherever the request had got to.
FetchReject ==
    /\ pending.on
    /\ ~pending.settled
    /\ net.from = "page"
    /\ pending' = [pending EXCEPT !.settled = TRUE, !.rejected = TRUE]
    /\ ServerReset
    /\ UNCHANGED <<role, q, loading, error, resp, submits, last>>

\* handleSubmit with setLoading(false) at the end of the try block instead of in
\* finally: a failure leaves loading set.
ResumeNoFinally ==
    /\ pending.on
    /\ pending.settled
    /\ IF pending.rejected
       THEN /\ error' = OrElse(Lit("Failed to fetch"), Lit("Something went wrong."))
            /\ last' = "failure"
            /\ UNCHANGED <<resp, loading>>
       ELSE IF ~ResOk(pending.res)
       THEN /\ error' = OrElse(Stringify(pending.res.body), Lit("Something went wrong."))
            /\ last' = "failure"
            /\ UNCHANGED <<resp, loading>>
       ELSE /\ resp' = NewResp(pending.res.body, pending)
            /\ last' = "success"
            /\ loading' = FALSE
            /\ UNCHANGED error
    /\ pending' = [on |-> FALSE, q |-> U, role |-> U, settled |-> FALSE, rejected |-> FALSE,
                   res |-> NoResponse]
    /\ UNCHANGED <<role, q, submits>>
    /\ UNCHANGED serverVars

\* handleSubmit from the settled fetch on: a rejection, or a status that is not
\* ok (which throws the body text), sets the error in the catch; a success sets
\* resp; finally loading is false.
Resume ==
    /\ pending.on
    /\ pending.settled
    /\ IF pending.rejected
       THEN /\ error' = OrElse(Lit("Failed to fetch"), Lit("Something went wrong."))
            /\ last' = "failure"
            /\ UNCHANGED resp
       ELSE IF ~ResOk(pending.res)
       THEN /\ error' = OrElse(Stringify(pending.res.body), Lit("Something went wrong."))
            /\ last' = "failure"
            /\ UNCHANGED resp
       ELSE /\ resp' = NewResp(pending.res.body, pending)
            /\ last' = "success"
            /\ UNCHANGED error
    /\ loading' = FALSE
    /\ pending' = NoPending
    /\ UNCHANGED <<role, q, submits>>
    /\ UNCHANGED serverVars

\* ---------------------------------------------------------- specifications
Init ==
    /\ net = NoRequest
    /\ pc = "idle"
    /\ postQ = U
    /\ postRole = U
    /\ scraped = U
    /\ fcCalls = <<>>
    /\ fcData = U
    /\ fcOk = FALSE
    /\ llmCalls = <<>>
    /\ llmText = NoText
    /\ response = NoResponse
    /\ role = RoleAgent
    /\ q = Empty
    /\ loading = FALSE
    /\ error = N
    /\ resp = N
    /\ pending = NoPending
    /\ submits = 0
    /\ last = "none"

\* What the user types, and what the capabilities answer, while the page is followed.
PageQueries ==
    {Empty, Str(<<" ", "\t">>), Str(<<"a", " ", "b">>),
     Str(<<"h", "t", "t", "p", ":", "/", "/", "a">>)}
PageProviderOutcomes ==
    {HttpError(503, Lit("busy")), HttpOk(Obj(<<P("content", TxtC)>>)),
     HttpOk(Obj(<<P("results", Arr(<<Obj(<<P("title", TxtT), P("content", TxtC)>>)>>))>>))}
PageLlmOutcomes ==
    {HttpError(429, Lit("rate limited")), HttpOk(Completion(Str(<<"S", "o", "r", "r", "y">>))),
     HttpOk(Completion(N)), HttpOk(Completion(Stringify(N))),
     HttpOk(Completion(Stringify(PageOf(FullMeta, FullSections, TxtH))))}

\* The page and the route it calls.
Next ==
    \/ \E value \in PageQueries : SetQ(value)
    \/ \E r \in ROLES : SetRole(r)
    \/ Submit
    \/ PostBegin
    \/ \E res \in PageProviderOutcomes : FirecrawlReturn(res)
    \/ \E res \in PageLlmOutcomes : OpenRouterReturn(res)
    \/ FetchResolve
    \/ FetchReject
    \/ Resume
Spec == Init /\ [][Next]_vars

\* The route alone, called with any body, against any answer of the capabilities.
NextApi ==
    \/ \E body \in ApiBodies : ApiRequest(body)
    \/ PostBegin
    \/ \E res \in ProviderOutcomes : FirecrawlReturn(res)
    \/ \E res \in LlmOutcomes : OpenRouterReturn(res)
    \/ ApiDone
SpecApi == Init /\ [][NextApi]_vars

\* ------------------------------------------------------------------ claims
\* C1: whatever value the LLM's text parses to (an object, {}, null, a number, a
\* string, an array), the defaulting step does not fail: the request ends in a
\* success response carrying a Page, never in an error response.
C1_DefaultingNeverFails ==
    (pc = "done" /\ llmText.given /\ llmText.parsed) => response.status = StatusOK

\* A Page as the defaulting step promises it.
PageComplete(page) ==
    /\ page.t = "obj"
    /\ Prop(page, "meta").t = "obj"
    /\ ~Nullish(Prop(Prop(page, "meta"), "title"))
    /\ ~Nullish(Prop(Prop(page, "meta"), "description"))
    /\ Prop(page, "sections").t = "arr"
    /\ Prop(page, "html").t = "str"
    /\ Prop(page, "html") # Empty

\* C2: the Page of every success response has a meta with a title and a
\* description that are not null, sections that is a sequence, and html that is
\* a non-empty string.
C2_SuccessPageComplete ==
    (pc = "done" /\ response.status = StatusOK) => PageComplete(Field(response.body, "page"))

\* C3: a request whose q is absent, or empty once trimmed, is answered with
\* status 400 and reaches neither capability.
C3_BlankQRejected ==
    LET query == Prop(net.body, "q")
        blank == Nullish(query) \/ (query.t = "str" /\ Trim(query) = Empty)
    IN  (net.from # "none" /\ net.body.t = "obj" /\ blank /\ pc # "idle")
            => /\ response.status = StatusBadRequest
               /\ fcCalls = <<>>
               /\ llmCalls = <<>>

\* C4: a success response is returned only when the LLM call succeeded and the
\* text it returned parsed; a successful call that returned no text that parses
\* ends in an error response.
C4_SuccessOnlyFromParsedText ==
    (pc = "done" /\ response.status = StatusOK)
        => (llmText.given /\ ~Nullish(llmText.content) /\ llmText.parsed)

\* C5: within one request the provider is called at most once and the LLM at most
\* once; the LLM is called only after firecrawl returned; a success response
\* comes only after the LLM's text was parsed; when firecrawl fails the LLM is not
\* called and the one response is an error with a message.
C5_SequentialNoRetry ==
    /\ Len(fcCalls) <= 1
    /\ Len(llmCalls) <= 1
    /\ fcOk => Len(fcCalls) = 1
    /\ llmCalls # <<>> => fcOk
    /\ llmText.given => llmCalls # <<>>
    /\ response.status = StatusOK => (llmText.given /\ llmText.parsed)
    /\ (response # NoResponse) <=> (pc = "done")
    /\ (pc = "done" /\ fcCalls # <<>> /\ ~fcOk)
          => /\ llmCalls = <<>>
             /\ response.status = StatusServerError
             /\ Truthy(Field(response.body, "error"))
C5_Witness ==
    /\ pc = "done"
    /\ fcCalls # <<>>
    /\ ~fcOk
    /\ llmCalls = <<>>
    /\ response.status = StatusServerError

\* A step that ends the suspended handleSubmit call, and whether it got a
\* success response.
SubmissionEnds == pending.on /\ ~pending'.on
GotSuccess == pending.settled /\ ~pending.rejected /\ ResOk(pending.res)
BlankSubmit == submits' = submits + 1 /\ ~Truthy(Trim(q))

\* C6: a submission that fails (blank q, a status that is not ok, a transport
\* error) leaves resp as it was and sets an error; one that succeeds sets resp to
\* the new { page, q, role } and leaves no error.
C6_FailureKeepsRespSuccessReplaces ==
    [][/\ BlankSubmit => (resp' = resp /\ error' # N)
       /\ (SubmissionEnds /\ ~GotSuccess) => (resp' = resp /\ error' # N)
       /\ (SubmissionEnds /\ GotSuccess)
             => /\ resp' = Obj(<<P("page", Field(pending.res.body, "page")),
                                 P("q", pending.q), P("role", pending.role)>>)
                /\ error' = N]_vars
C6_Witness ==
    /\ last = "failure"
    /\ resp # N
    /\ error # N
    /\ ~loading

Lower(ch) ==
    CASE ch = "H" -> "h" [] ch = "T" -> "t" [] ch = "P" -> "p" [] ch = "S" -> "s"
      [] ch = "A" -> "a" [] ch = "B" -> "b" [] OTHER -> ch
\* The query, trimmed and in lower case, starts with http:// or https://.
StartsWithHttp(query) ==
    LET cs == FirstChars(Trim(query), 8)
        low == [i \in 1..Len(cs) |-> Lower(cs[i])]
    IN  \/ Len(low) >= 7 /\ SubSeq(low, 1, 7) = <<"h", "t", "t", "p", ":", "/", "/">>
        \/ Len(low) = 8 /\ low = <<"h", "t", "t", "p", "s", ":", "/", "/">>

\* C7: for a query that, trimmed, starts with http:// or https:// in any case,
\* the one fetch of firecrawl is /scrape with { url: q }; for any other non-empty
\* query it is /search with { query: q, limit: 5 }.
C7_ScrapeIffUrl ==
    (pc # "idle" /\ postQ.t = "str" /\ Truthy(postQ))
        => /\ Len(fcCalls) = 1
           /\ fcCalls[1] =
                 IF StartsWithHttp(postQ)
                 THEN [endpoint |-> "/scrape", body |-> Obj(<<P("url", postQ)>>)]
                 ELSE [endpoint |-> "/search",
                       body |-> Obj(<<P("query", postQ), P("limit", Num(SearchLimit))>>)]
C7_Witness ==
    /\ fcCalls # <<>>
    /\ fcCalls[1].endpoint = "/scrape"
    /\ postQ = Str(<<"\n", " ", "h", "T", "t", "P", "S", ":", "/", "/", "\t">>)

\* C8: whatever the shape of a successful provider response, firecrawl returns a
\* text and the request goes on to the LLM.
C8_AnyShapeYieldsText ==
    fcData.t # "undef" => (fcOk /\ scraped.t = "str" /\ llmCalls # <<>>)

\* The content every prompt sent to the LLM embeds is the first SliceCap
\* characters of scraped.
ContentIsCut ==
    \A i \in 1..Len(llmCalls) :
        LET content == llmCalls[i].user.content
        IN  /\ Length(content) <= SliceCap
            /\ scraped.t = "str"
                  => /\ IsPrefix(content, scraped)
                     /\ Length(content) = Min(Length(scraped), SliceCap)

C10_LoadingTracksSubmission ==
    [][/\ (submits' = submits + 1 /\ Truthy(Trim(q))) => (pending'.on /\ loading')
       /\ pending'.on => loading'
       /\ ~pending'.on => ~loading'
       /\ SubmissionEnds
             => LET replaced == last' = "success" /\ error' = N
                    failed == last' = "failure" /\ error' # N /\ resp' = resp
                IN  (replaced \/ failed) /\ ~(replaced /\ failed)]_vars
C10_Witness ==
    /\ last = "success"
    /\ ~loading
    /\ ~pending.on
    /\ error = N
    /\ resp # N
====
